---- MODULE Spec2Model ----
(***************************************************************************)
(* Model of the JewelCAD stud backend (src/app.py): the vector helpers,    *)
(* the cylinder and ring tessellators, the stud builder and the binary     *)
(* STL writer, with the HTTP handlers that call them.                      *)
(*                                                                         *)
(* Python floats are modelled as fixed-point integers: the integer v       *)
(* stands for the real number v / S with S = 2^10.  Every such value of    *)
(* magnitude below 2^24 is exactly representable as an IEEE-754 single, so *)
(* struct.pack('<f') is modelled bit for bit.  A finite double whose       *)
(* magnitude exceeds the largest single is modelled by the value TooLarge. *)
(***************************************************************************)
EXTENDS Integers, Sequences, FiniteSets

\* op, args: the call made last; outcome: whether it returned or raised;
\* tris: the triangle list it returned or was given; parts: the primitives
\* build_stud tessellated; stl: what _write_binary_stl produced
VARIABLES op, args, outcome, tris, parts, stl

vars == <<op, args, outcome, tris, parts, stl>>

(***************************************************************************)
(* Bounds of the model.                                                    *)
(***************************************************************************)
MaxSeg == 6
MaxRaw == 1

(***************************************************************************)
(* Fixed-point arithmetic standing for Python float arithmetic.            *)
(***************************************************************************)
S == 2^10
T == 2^14
Half == S \div 2
TooLarge == 2^30

Abs(x) == IF x < 0 THEN -x ELSE x
Max(a, b) == IF a >= b THEN a ELSE b

\* F applied to the value of v: v is evaluated once and F works on its value
Let(v, F(_)) == CHOOSE r \in {F(x) : x \in {v}} : TRUE

\* the sequence f with every element evaluated
Tuple(f) == f \o <<>>

\* m / d rounded to the nearest integer, halves up (m >= 0, d > 0)
Nearest(m, d) == (m \div d) + (IF 2 * (m % d) >= d THEN 1 ELSE 0)

\* a / d rounded to the nearest integer, halves away from zero (d > 0)
RDiv(a, d) ==
  Let(a, LAMBDA v : IF v < 0 THEN -Nearest(-v, d) ELSE Nearest(v, d))

\* float product x * y
FMul(x, y) == RDiv(x * y, S)

\* same product on the finer grid used inside cos and sin
TMul(x, y) == RDiv(x * y, T)

\* pi / 2 on the T grid
HalfPiT == 25736

\* sin and cos of an angle x in [0, pi/2], argument and result on the T grid:
\* the Taylor series to the ninth and tenth power, in Horner's form
SinT(x) ==
  Let(TMul(x, x), LAMBDA x2 :
    TMul(x, T - TMul(RDiv(x2, 6),
                T - TMul(RDiv(x2, 20),
                  T - TMul(RDiv(x2, 42),
                    T - RDiv(x2, 72))))))

CosT(x) ==
  Let(TMul(x, x), LAMBDA x2 :
    T - TMul(RDiv(x2, 2),
          T - TMul(RDiv(x2, 12),
            T - TMul(RDiv(x2, 30),
              T - TMul(RDiv(x2, 56),
                T - RDiv(x2, 90))))))

\* the angle 2*pi*i/n of the source, 0 <= i < n, reduced to its quadrant
Quadrant(i, n) == (4 * i) \div n
Phi(i, n) == (HalfPiT * ((4 * i) % n)) \div n

\* math.cos(2.0 * math.pi * i / n)
Cos(i, n) ==
  Let(Quadrant(i, n), LAMBDA q :
    Let(Phi(i, n), LAMBDA x :
      RDiv(IF q = 0 THEN CosT(x)
           ELSE IF q = 1 THEN -SinT(x)
           ELSE IF q = 2 THEN -CosT(x)
           ELSE SinT(x),
           T \div S)))

\* math.sin(2.0 * math.pi * i / n)
Sin(i, n) ==
  Let(Quadrant(i, n), LAMBDA q :
    Let(Phi(i, n), LAMBDA x :
      RDiv(IF q = 0 THEN SinT(x)
           ELSE IF q = 1 THEN CosT(x)
           ELSE IF q = 2 THEN -SinT(x)
           ELSE -CosT(x),
           T \div S)))

(***************************************************************************)
(* Vector helpers.  The cross product of two vectors on the S grid is kept *)
(* exactly, on the S*S grid; only its direction is used.                   *)
(***************************************************************************)
_add(a, b) == <<a[1] + b[1], a[2] + b[2], a[3] + b[3]>>
_sub(a, b) == <<a[1] - b[1], a[2] - b[2], a[3] - b[3]>>
_cross(a, b) == <<a[2] * b[3] - a[3] * b[2],
                  a[3] * b[1] - a[1] * b[3],
                  a[1] * b[2] - a[2] * b[1]>>

(***************************************************************************)
(* cylinder(radius, height, segments, axis, center)                        *)
(***************************************************************************)
\* the list circle of the source; its element i is Circle(...)[i + 1]
Circle(radius, segments) ==
  Tuple([j \in 1..segments |->
           <<FMul(radius, Cos(j - 1, segments)), 0,
             FMul(radius, Sin(j - 1, segments))>>])

\* the side quads, two triangles each
SideWall(circle, segments, lo, hi) ==
  Tuple([j \in 1..(2 * segments) |->
     LET i == (j - 1) \div 2
         i2 == (i + 1) % segments
         b1 == <<circle[i + 1][1], lo, circle[i + 1][3]>>
         b2 == <<circle[i2 + 1][1], lo, circle[i2 + 1][3]>>
         t1 == <<circle[i + 1][1], hi, circle[i + 1][3]>>
         t2 == <<circle[i2 + 1][1], hi, circle[i2 + 1][3]>>
     IN IF j % 2 = 1 THEN <<b1, b2, t2>> ELSE <<b1, t2, t1>>])

\* BottomCap with a fan over every circle point instead of the inner ones
BottomCap_EveryPoint(circle, segments, h2) ==
  Tuple([j \in 1..segments |->
     LET i == j - 1
         i2 == (i + 1) % segments
         v0 == <<0, -h2, 0>>
         v1 == <<circle[i + 1][1], -h2, circle[i + 1][3]>>
         v2 == <<circle[i2 + 1][1], -h2, circle[i2 + 1][3]>>
     IN <<v0, v2, v1>>])

BottomCap(circle, segments, h2) ==
  Tuple([i \in 1..(segments - 2) |->
     LET v0 == <<0, -h2, 0>>
         v1 == <<circle[i + 1][1], -h2, circle[i + 1][3]>>
         v2 == <<circle[i + 2][1], -h2, circle[i + 2][3]>>
     IN <<v0, v2, v1>>])

TopCap(circle, segments, h2) ==
  Tuple([i \in 1..(segments - 2) |->
     LET v0 == <<0, h2, 0>>
         v1 == <<circle[i + 2][1], h2, circle[i + 2][3]>>
         v2 == <<circle[i + 1][1], h2, circle[i + 1][3]>>
     IN <<v0, v2, v1>>])

\* xform with the translation applied before the axes are swapped
xform_TranslateFirst(p, axis, center) ==
  Let(_add(p, center), LAMBDA q :
    IF axis = "y" THEN <<q[1], q[2], q[3]>>
    ELSE IF axis = "x" THEN <<q[2], q[1], q[3]>>
    ELSE IF axis = "z" THEN <<q[1], q[3], q[2]>>
    ELSE <<q[1], q[2], q[3]>>)

\* re-orient, then translate
xform(p, axis, center) ==
  _add(IF axis = "y" THEN <<p[1], p[2], p[3]>>
       ELSE IF axis = "x" THEN <<p[2], p[1], p[3]>>
       ELSE IF axis = "z" THEN <<p[1], p[3], p[2]>>
       ELSE <<p[1], p[2], p[3]>>,
       center)

cylinder(radius, height, segments, axis, center) ==
  Let(FMul(height, Half), LAMBDA h2 :
    Let(Circle(radius, segments), LAMBDA circle :
      Let(SideWall(circle, segments, -h2, h2)
          \o BottomCap(circle, segments, h2)
          \o TopCap(circle, segments, h2), LAMBDA local :
        Tuple([k \in 1..Len(local) |->
                 <<xform(local[k][1], axis, center),
                   xform(local[k][2], axis, center),
                   xform(local[k][3], axis, center)>>]))))

(***************************************************************************)
(* ring(inner_r, outer_r, height, segments, center_y)                      *)
(***************************************************************************)
\* the circle points of ring are pairs (x, z); kept here as (x, 0, z)
InnerWall(circle, segments, lo, hi) ==
  Tuple([j \in 1..(2 * segments) |->
     LET i == (j - 1) \div 2
         i2 == (i + 1) % segments
         b1 == <<circle[i + 1][1], lo, circle[i + 1][3]>>
         b2 == <<circle[i2 + 1][1], lo, circle[i2 + 1][3]>>
         t1 == <<circle[i + 1][1], hi, circle[i + 1][3]>>
         t2 == <<circle[i2 + 1][1], hi, circle[i2 + 1][3]>>
     IN IF j % 2 = 1 THEN <<b1, t2, b2>> ELSE <<b1, t1, t2>>])

TopFace(outer_circle, inner_circle, segments, y) ==
  Tuple([j \in 1..(2 * segments) |->
     LET i == (j - 1) \div 2
         i2 == (i + 1) % segments
         out1 == <<outer_circle[i + 1][1], y, outer_circle[i + 1][3]>>
         out2 == <<outer_circle[i2 + 1][1], y, outer_circle[i2 + 1][3]>>
         in1 == <<inner_circle[i + 1][1], y, inner_circle[i + 1][3]>>
         in2 == <<inner_circle[i2 + 1][1], y, inner_circle[i2 + 1][3]>>
     IN IF j % 2 = 1 THEN <<out1, out2, in2>> ELSE <<out1, in2, in1>>])

BottomFace(outer_circle, inner_circle, segments, y) ==
  Tuple([j \in 1..(2 * segments) |->
     LET i == (j - 1) \div 2
         i2 == (i + 1) % segments
         out1 == <<outer_circle[i + 1][1], y, outer_circle[i + 1][3]>>
         out2 == <<outer_circle[i2 + 1][1], y, outer_circle[i2 + 1][3]>>
         in1 == <<inner_circle[i + 1][1], y, inner_circle[i + 1][3]>>
         in2 == <<inner_circle[i2 + 1][1], y, inner_circle[i2 + 1][3]>>
     IN IF j % 2 = 1 THEN <<out1, in2, out2>> ELSE <<out1, in1, in2>>])

ring(inner_r, outer_r, height, segments, center_y) ==
  Let(FMul(height, Half), LAMBDA h2 :
    Let(Circle(outer_r, segments), LAMBDA outer_circle :
      Let(Circle(inner_r, segments), LAMBDA inner_circle :
        SideWall(outer_circle, segments, center_y - h2, center_y + h2)
        \o InnerWall(inner_circle, segments, center_y - h2, center_y + h2)
        \o TopFace(outer_circle, inner_circle, segments, center_y + h2)
        \o BottomFace(outer_circle, inner_circle, segments, center_y - h2))))

(***************************************************************************)
(* build_stud: the parts it tessellates, in order, and their concatenation *)
(***************************************************************************)
\* the decimal literal n/d of the source as a float; an even multiple of
\* 1/S, so that halving it is exact as it is for a binary float
Dec(n, d) == 2 * RDiv(n * Half, d)

RimClearance == Dec(1, 10)
RimHeight == Dec(12, 10)
RimBaseY == 0
PostGap == Dec(5, 10)
DiskExtra == Dec(15, 10)

RECURSIVE Concat(_)
Concat(meshes) ==
  IF meshes = <<>> THEN <<>> ELSE Head(meshes) \o Concat(Tail(meshes))

\* ProngCount with the test made on the other style
ProngCount_OtherStyle(head_style) == IF head_style = "4-prong" THEN 4 ELSE 6

ProngCount(head_style) == IF head_style = "6-prong" THEN 6 ELSE 4

\* ProngRadiusPosition on the outer edge of the rim
ProngRadiusPosition_Outer(rim_inner, rim_outer) == rim_outer

\* the radius at which the prongs stand: the middle of the rim wall
ProngRadiusPosition(rim_inner, rim_outer) == FMul(rim_inner + rim_outer, Half)

\* the center of prong i of prong_n
ProngCenter(position, prong_base_y, prong_height, i, prong_n) ==
  <<FMul(position, Cos(i, prong_n)),
    prong_base_y + FMul(prong_height, Half),
    FMul(position, Sin(i, prong_n))>>

\* one call of ring or cylinder made by build_stud, and what it returned
Part(kind, radius, height, segments, axis, center, mesh) ==
  [kind |-> kind, radius |-> radius, height |-> height, segments |-> segments,
   axis |-> axis, center |-> center, mesh |-> mesh]

CylinderPart(kind, radius, height, segments, axis, center) ==
  Let(center, LAMBDA c :
    Part(kind, radius, height, segments, axis, c,
         cylinder(radius, height, segments, axis, c)))

\* 1) the basket rim
RimPart(a, rim_inner, rim_outer) ==
  Let(RimBaseY + FMul(RimHeight, Half), LAMBDA rim_center_y :
    Part("rim", rim_outer, RimHeight, a.segments, "y", <<0, rim_center_y, 0>>,
         ring(rim_inner, rim_outer, RimHeight, a.segments, rim_center_y)))

\* 2) the prongs, standing on the rim
ProngParts(a, rim_inner, rim_outer) ==
  Let(ProngRadiusPosition(rim_inner, rim_outer), LAMBDA prong_radius_position :
    Let(ProngCount(a.head_style), LAMBDA prong_n :
      Tuple([k \in 1..prong_n |->
               CylinderPart("prong", FMul(a.prong_thickness, Half),
                            a.prong_height, Max(12, a.segments \div 4), "y",
                            ProngCenter(prong_radius_position,
                                        RimBaseY + RimHeight, a.prong_height,
                                        k - 1, prong_n))])))

\* 3) the post, along +X
PostPart(a, rim_outer) ==
  Let(rim_outer + PostGap, LAMBDA post_start_x :
    CylinderPart("post", FMul(a.post_diameter, Half), a.post_length,
                 Max(16, a.segments \div 3), "x",
                 <<post_start_x + FMul(a.post_length, Half),
                   RimBaseY + FMul(RimHeight, Half), 0>>))

\* 4) the optional backing disk
DiskPart(a, rim_outer) ==
  Let(rim_outer + PostGap + a.post_length + PostGap, LAMBDA disk_x :
    CylinderPart("disk",
                 FMul(a.post_diameter, Half) + a.backing_extra_radius + DiskExtra,
                 a.backing_thickness, Max(24, a.segments \div 2), "x",
                 <<disk_x + FMul(a.backing_thickness, Half),
                   RimBaseY + FMul(RimHeight, Half), 0>>))

StudParts(a) ==
  Let(FMul(a.stone_diameter, Half) + RimClearance, LAMBDA rim_inner :
    Let(rim_inner + a.basket_wall_thickness, LAMBDA rim_outer :
      <<RimPart(a, rim_inner, rim_outer)>>
      \o ProngParts(a, rim_inner, rim_outer)
      \o <<PostPart(a, rim_outer)>>
      \o (IF a.include_backing_disk THEN <<DiskPart(a, rim_outer)>> ELSE <<>>)))

\* the triangle lists of the parts, appended in order
Aggregate(ps) == Concat([k \in 1..Len(ps) |-> ps[k].mesh])

build_stud(a) == Let(StudParts(a), LAMBDA ps : Aggregate(ps))

(***************************************************************************)
(* _norm, _normalize                                                       *)
(***************************************************************************)
RECURSIVE SqrtBetween(_, _, _)
\* the integer r with lo <= r < hi and r*r <= x < (r+1)*(r+1)
SqrtBetween(x, lo, hi) ==
  IF hi - lo <= 1 THEN lo
  ELSE Let((lo + hi) \div 2, LAMBDA mid :
         IF mid * mid <= x THEN SqrtBetween(x, mid, hi)
         ELSE SqrtBetween(x, lo, mid))

RECURSIVE ScaleDown(_, _)
ScaleDown(m, k) == IF m \div k < 2^14 THEN k ELSE ScaleDown(m, 2 * k)

RECURSIVE ScaleUp(_, _)
ScaleUp(m, k) == IF m * k * 2 < 2^14 THEN ScaleUp(m, 2 * k) ELSE k

\* the same direction with its largest component brought into [2^13, 2^14),
\* so that the squares below stay in range and keep their precision
Rescale(a) ==
  Let(Max(Abs(a[1]), Max(Abs(a[2]), Abs(a[3]))), LAMBDA m :
    IF m = 0 THEN a
    ELSE IF m >= 2^14
      THEN Let(ScaleDown(m, 2), LAMBDA k :
             <<RDiv(a[1], k), RDiv(a[2], k), RDiv(a[3], k)>>)
      ELSE Let(ScaleUp(m, 1), LAMBDA k : <<a[1] * k, a[2] * k, a[3] * k>>))

_norm(a) == SqrtBetween(a[1] * a[1] + a[2] * a[2] + a[3] * a[3], 0, 2^15)

_normalize(a) ==
  Let(a, LAMBDA v :
    Let(Rescale(v), LAMBDA b :
      Let(_norm(b), LAMBDA n :
        IF n = 0 THEN <<0, 0, 0>>
        ELSE <<RDiv(b[1] * S, n), RDiv(b[2] * S, n), RDiv(b[3] * S, n)>>)))

(***************************************************************************)
(* struct.pack and _write_binary_stl                                       *)
(***************************************************************************)
RECURSIVE Log2(_)
Log2(m) == IF m < 2 THEN 0 ELSE 1 + Log2(m \div 2)

\* struct.pack('<f', v / S) raises OverflowError
Overflows32(v) == Abs(v) >= TooLarge

\* q / d rounded to the nearest integer, halves to the even one
RoundEven(q, d) ==
  IF 2 * (q % d) > d \/ (2 * (q % d) = d /\ (q \div d) % 2 = 1)
  THEN (q \div d) + 1 ELSE q \div d

\* the 23 stored bits of the significand of m / S, 2^e <= m < 2^(e+1)
Mantissa(m, e) ==
  IF e <= 23 THEN (m - 2^e) * 2^(23 - e) ELSE RoundEven(m - 2^e, 2^(e - 23))

\* struct.pack('<f', v / S): the IEEE-754 single nearest to v / S, least
\* significant byte first
Pack32(v) ==
  IF v = 0 THEN <<0, 0, 0, 0>>
  ELSE
    Let(Log2(Abs(v)), LAMBDA e :
      Let((e - 10 + 127) * 2^23 + Mantissa(Abs(v), e), LAMBDA low31 :
        <<low31 % 256, (low31 \div 256) % 256, (low31 \div 65536) % 256,
          (low31 \div 2^24) + (IF v < 0 THEN 128 ELSE 0)>>))

\* struct.pack('<3f', *p)
Pack3f(p) == Pack32(p[1]) \o Pack32(p[2]) \o Pack32(p[3])

\* struct.pack('<I', n)
PackU32(n) ==
  <<n % 256, (n \div 256) % 256, (n \div 65536) % 256, (n \div 2^24) % 256>>

\* struct.pack('<H', 0)
PackAttr == <<0, 0>>

\* b'JewelCAD_Stud'.ljust(80, b'\0')
HeaderText == <<74, 101, 119, 101, 108, 67, 65, 68, 95, 83, 116, 117, 100>>
Header == Tuple([i \in 1..80 |-> IF i <= Len(HeaderText) THEN HeaderText[i] ELSE 0])

\* TriRecord with the last two vertices written in the other order
TriRecord_Reordered(t) ==
  Let(_normalize(_cross(_sub(t[2], t[1]), _sub(t[3], t[1]))), LAMBDA n :
    Pack3f(n) \o Pack3f(t[1]) \o Pack3f(t[3]) \o Pack3f(t[2]) \o PackAttr)

\* the 50 bytes written for one triangle
TriRecord(t) ==
  Let(_normalize(_cross(_sub(t[2], t[1]), _sub(t[3], t[1]))), LAMBDA n :
    Pack3f(n) \o Pack3f(t[1]) \o Pack3f(t[2]) \o Pack3f(t[3]) \o PackAttr)

\* a vertex that cannot be packed: the loop raises at this triangle, in the
\* arithmetic of the normal or in struct.pack of the vertex
Unpackable(t) ==
  \E v \in 1..3 : \E c \in 1..3 : Overflows32(t[v][c])

\* the records of the triangles one after the other
Records(mesh) ==
  Let(Tuple([k \in 1..Len(mesh) |-> TriRecord(mesh[k])]), LAMBDA recs :
    Tuple([i \in 1..(50 * Len(recs)) |->
             recs[((i - 1) \div 50) + 1][((i - 1) % 50) + 1]]))

\* _write_binary_stl over a _normalize without the test for a zero length:
\* the division raises on a degenerate triangle
_write_binary_stl_Unguarded(mesh) ==
  IF \E k \in 1..Len(mesh) :
       \/ Unpackable(mesh[k])
       \/ _cross(_sub(mesh[k][2], mesh[k][1]), _sub(mesh[k][3], mesh[k][1]))
            = <<0, 0, 0>>
  THEN [status |-> "error", data |-> <<>>]
  ELSE [status |-> "ok",
        data |-> Header \o PackU32(Len(mesh)) \o Records(mesh)]

_write_binary_stl(mesh) ==
  IF \E k \in 1..Len(mesh) : Unpackable(mesh[k])
  THEN [status |-> "error", data |-> <<>>]
  ELSE [status |-> "ok",
        data |-> Header \o PackU32(Len(mesh)) \o Records(mesh)]

(***************************************************************************)
(* Inputs of the calls.                                                    *)
(***************************************************************************)
Origin == <<0, 0, 0>>
Axes == {"x", "y", "z", "w"}
Radii == {Half, S}
Heights == {S, 2 * S}
Centers == {Origin, <<3 * S, -S, 2 * S>>}
CenterYs == {0, S}
SegCounts == 0..MaxSeg

\* meshes handed to _write_binary_stl directly: empty, proper, degenerate
\* (repeated or collinear vertices) and out of the range of a single
VertexPool ==
  {Origin, <<TooLarge, 0, 0>>}
  \cup {<<k * Half, 0, 0>> : k \in 1..MaxRaw}
  \cup {<<0, k * Dec(1, 3), -k * S>> : k \in 1..MaxRaw}
RawTriangles == {<<a, b, c>> : a \in VertexPool, b \in VertexPool, c \in VertexPool}
RawMeshes ==
  {<<>>} \cup {<<t>> : t \in RawTriangles}
  \cup {<<t, <<t[2], t[3], t[1]>>>> : t \in RawTriangles}

\* the defaults of build_stud
StudDefaults ==
  [fn |-> "build_stud",
   stone_diameter |-> Dec(65, 10), head_style |-> "4-prong",
   prong_thickness |-> Dec(9, 10), prong_height |-> Dec(16, 10),
   basket_wall_thickness |-> Dec(8, 10), post_diameter |-> Dec(9, 10),
   post_length |-> 10 * S, include_backing_disk |-> FALSE,
   backing_extra_radius |-> Dec(25, 100), backing_thickness |-> Dec(7, 10),
   segments |-> 48]

HeadStyles == {"4-prong", "6-prong", "halo"}
StoneDiameters == {Dec(65, 10), 4 * S, 0, -2 * S}
ProngThicknesses == {Dec(9, 10), 0}
PostLengths == {10 * S, -S}
StudSegs == {MaxSeg, 12}

\* the quality setting of generate_stl
GenerateSegments == 48

CylinderCalls ==
  {[fn |-> "cylinder", radius |-> radius, height |-> height,
    segments |-> segments, axis |-> axis, center |-> center] :
     radius \in Radii, height \in Heights, segments \in SegCounts,
     axis \in Axes, center \in Centers}

RingCalls ==
  {[fn |-> "ring", inner_r |-> inner_r, outer_r |-> outer_r,
    height |-> height, segments |-> segments, center_y |-> center_y] :
     inner_r \in Radii, outer_r \in Radii \cup {2 * S}, height \in Heights,
     segments \in SegCounts, center_y \in CenterYs}

StudCalls ==
  {[StudDefaults EXCEPT !.stone_diameter = sd, !.head_style = hs,
      !.prong_thickness = pt, !.post_length = pl,
      !.include_backing_disk = disk, !.segments = segments] :
     sd \in StoneDiameters, hs \in HeadStyles, pt \in ProngThicknesses,
     pl \in PostLengths, disk \in BOOLEAN, segments \in StudSegs}

\* the JSON bodies posted to /api/generate; missing keys take the defaults
GenerateCalls ==
  {[StudDefaults EXCEPT !.fn = "generate_stl", !.stone_diameter = sd,
      !.head_style = hs, !.include_backing_disk = disk,
      !.segments = GenerateSegments] :
     sd \in {Dec(65, 10), 4 * S}, hs \in HeadStyles, disk \in BOOLEAN}

OtherCalls ==
  {[fn |-> "_write_binary_stl"], [fn |-> "options"], [fn |-> "health"],
   [fn |-> "generate_step"]}

NoStl == [status |-> "none", data |-> <<>>]

\* an exception of the writer propagates to the caller
Outcome(written) == IF written.status = "error" THEN "raised" ELSE "returned"

\* a call is pending, with its arguments; a pending call of the writer has
\* its mesh in tris
Init ==
  /\ op = "none"
  /\ outcome = "pending"
  /\ args \in CylinderCalls \cup RingCalls \cup StudCalls \cup GenerateCalls
              \cup OtherCalls
  /\ tris \in IF args.fn = "_write_binary_stl" THEN RawMeshes ELSE {<<>>}
  /\ parts = <<>>
  /\ stl = NoStl

Pending(fn) == outcome = "pending" /\ args.fn = fn

\* cylinder(radius, height, segments, axis, center)
CallCylinder ==
  /\ Pending("cylinder")
  /\ op' = "cylinder"
  /\ outcome' = "returned"
  /\ tris' = cylinder(args.radius, args.height, args.segments, args.axis,
                      args.center)
  /\ UNCHANGED <<args, parts, stl>>

\* ring(inner_r, outer_r, height, segments, center_y)
CallRing ==
  /\ Pending("ring")
  /\ op' = "ring"
  /\ outcome' = "returned"
  /\ tris' = ring(args.inner_r, args.outer_r, args.height, args.segments,
                  args.center_y)
  /\ UNCHANGED <<args, parts, stl>>

\* build_stud(...)
CallBuildStud ==
  /\ Pending("build_stud")
  /\ op' = "build_stud"
  /\ outcome' = "returned"
  /\ parts' = StudParts(args)
  /\ tris' = build_stud(args)
  /\ UNCHANGED <<args, stl>>

\* _write_binary_stl(tris), on a given mesh or on the mesh just built
CallWriteStl ==
  /\ \/ Pending("_write_binary_stl")
     \/ outcome = "returned" /\ op \in {"cylinder", "ring", "build_stud"}
  /\ op' = "write"
  /\ stl' = _write_binary_stl(tris)
  /\ outcome' = Outcome(stl')
  /\ UNCHANGED <<args, tris, parts>>

\* POST /api/generate: build the stud from the request, encode it
GenerateStl ==
  /\ Pending("generate_stl")
  /\ op' = "generate_stl"
  /\ parts' = StudParts(args)
  /\ tris' = build_stud(args)
  /\ stl' = _write_binary_stl(tris')
  /\ outcome' = Outcome(stl')
  /\ UNCHANGED args

\* OPTIONS on either generate route: an empty 200 response, nothing built
Preflight ==
  /\ Pending("options")
  /\ op' = "options"
  /\ outcome' = "returned"
  /\ UNCHANGED <<args, tris, parts, stl>>

\* GET /health
Health ==
  /\ Pending("health")
  /\ op' = "health"
  /\ outcome' = "returned"
  /\ UNCHANGED <<args, tris, parts, stl>>

\* POST /api/generate/step: a fixed placeholder, no geometry
GenerateStep ==
  /\ Pending("generate_step")
  /\ op' = "generate_step"
  /\ outcome' = "returned"
  /\ UNCHANGED <<args, tris, parts, stl>>

Next ==
  \/ CallCylinder
  \/ CallRing
  \/ CallBuildStud
  \/ CallWriteStl
  \/ GenerateStl
  \/ Preflight
  \/ Health
  \/ GenerateStep

Spec == Init /\ [][Next]_vars

(***************************************************************************)
(* Reading the encoded stream back, and the geometry the properties need.  *)
(***************************************************************************)
\* the float on the S grid held by the four bytes that start at data[pos]
Unpack32(data, pos) ==
  LET low31 == data[pos] + 256 * data[pos + 1] + 65536 * data[pos + 2]
               + 2^24 * (data[pos + 3] % 128)
      neg == data[pos + 3] >= 128
      biased == low31 \div 2^23
      sig == 2^23 + (low31 % 2^23)
      m == IF biased >= 140 THEN sig * 2^(biased - 140)
           ELSE RDiv(sig, 2^(140 - biased))
  IN IF low31 = 0 THEN 0 ELSE IF neg THEN -m ELSE m

\* the little-endian count after the 80-byte header
StoredCount(data) ==
  data[81] + 256 * data[82] + 65536 * data[83] + 2^24 * data[84]

\* vertex v of record k: the 12 bytes after the record's normal and the
\* vertices before it
StoredVertex(data, k, v) ==
  LET pos == 84 + 50 * (k - 1) + 12 * v + 1
  IN <<Unpack32(data, pos), Unpack32(data, pos + 4), Unpack32(data, pos + 8)>>

StoredNormal(data, k) ==
  LET pos == 84 + 50 * (k - 1) + 1
  IN <<Unpack32(data, pos), Unpack32(data, pos + 4), Unpack32(data, pos + 8)>>

Parse(data) ==
  [k \in 1..StoredCount(data) |->
     <<StoredVertex(data, k, 1), StoredVertex(data, k, 2),
       StoredVertex(data, k, 3)>>]

\* the normal derived from the winding of a triangle
Normal(t) == _normalize(_cross(_sub(t[2], t[1]), _sub(t[3], t[1])))

\* the normal of t against the radial vector from the Y axis to three times
\* the centroid of t
RadialDot(t) ==
  LET n == Normal(t)
  IN n[1] * (t[1][1] + t[2][1] + t[3][1]) + n[3] * (t[1][3] + t[2][3] + t[3][3])

Degenerate(t) == _cross(_sub(t[2], t[1]), _sub(t[3], t[1])) = <<0, 0, 0>>

InRange(mesh) == \A k \in 1..Len(mesh) : ~Unpackable(mesh[k])

\* the coordinate along which the height of a cylinder runs
AxisIndex(axis) == IF axis = "x" THEN 1 ELSE IF axis = "z" THEN 3 ELSE 2

IsCylinder == op = "cylinder" /\ outcome = "returned"
IsRing == op = "ring" /\ outcome = "returned"
IsStud == op \in {"build_stud", "generate_stl"} /\ parts # <<>>

(***************************************************************************)
(* C1: a cylinder of n >= 3 segments has 4n - 4 triangles: 2n side-wall    *)
(* triangles spanning both ends, then n - 2 triangles in the bottom plane, *)
(* then n - 2 in the top plane, whatever the axis and the center.          *)
(***************************************************************************)
Level(t, v) == t[v][AxisIndex(args.axis)] - args.center[AxisIndex(args.axis)]
Levels(t) == {Level(t, 1), Level(t, 2), Level(t, 3)}
H2 == FMul(args.height, Half)

C1_TriangleCount ==
  (IsCylinder /\ args.segments >= 3) =>
    LET n == args.segments
    IN /\ Len(tris) = 4 * n - 4
       /\ \A k \in 1..(2 * n) : Levels(tris[k]) = {-H2, H2}
       /\ \A k \in (2 * n + 1)..(3 * n - 2) : Levels(tris[k]) = {-H2}
       /\ \A k \in (3 * n - 1)..(4 * n - 4) : Levels(tris[k]) = {H2}

C1_Witness ==
  /\ IsCylinder
  /\ args.segments = 4
  /\ args.axis = "x"
  /\ args.center # Origin
  /\ Len(tris) = 12

(***************************************************************************)
(* C2 as stated: every call of _write_binary_stl returns, and returns      *)
(* 84 + 50 * len(mesh) bytes: the zero-padded 80-byte header, the count,   *)
(* one 50-byte record per triangle.                                        *)
(***************************************************************************)
WellFormed(data, mesh) ==
  /\ Len(data) = 84 + 50 * Len(mesh)
  /\ \A i \in 1..80 : data[i] = IF i <= Len(HeaderText) THEN HeaderText[i] ELSE 0
  /\ StoredCount(data) = Len(mesh)
  /\ \A k \in 1..Len(mesh) : data[84 + 50 * k - 1] = 0 /\ data[84 + 50 * k] = 0

C2_EveryMeshEncodes ==
  op \in {"write", "generate_stl"} =>
    /\ outcome = "returned"
    /\ stl.status = "ok"
    /\ WellFormed(stl.data, tris)

(***************************************************************************)
(* C2 amended: the same for every mesh whose coordinates are within the    *)
(* range of a 32-bit float, the empty mesh and degenerate triangles        *)
(* included; a degenerate triangle gets the zero normal.                   *)
(***************************************************************************)
C2_InRangeMeshEncodes ==
  (op \in {"write", "generate_stl"} /\ InRange(tris)) =>
    /\ outcome = "returned"
    /\ stl.status = "ok"
    /\ WellFormed(stl.data, tris)
    /\ \A k \in 1..Len(tris) :
         Degenerate(tris[k]) => StoredNormal(stl.data, k) = <<0, 0, 0>>

C2_Witness ==
  /\ op = "write"
  /\ Len(tris) = 2
  /\ Degenerate(tris[1])
  /\ tris[1][1] # tris[1][3]
  /\ stl.status = "ok"
  /\ Len(stl.data) = 184

(***************************************************************************)
(* C3: every side-wall triangle of a cylinder along Y centred at the       *)
(* origin has a derived normal with non-negative dot product with the      *)
(* radial vector to its centroid.                                          *)
(***************************************************************************)
C3_SideNormalsOutward ==
  (IsCylinder /\ args.axis = "y" /\ args.center = Origin /\ args.segments >= 3) =>
    \A k \in 1..(2 * args.segments) : RadialDot(tris[k]) >= 0

(***************************************************************************)
(* C4: reading the encoded stream back gives the mesh that was encoded:    *)
(* record k holds the vertices of triangle k, in their stored order.       *)
(***************************************************************************)
C4_RoundTrip ==
  stl.status = "ok" => Parse(stl.data) = tris

C4_Witness ==
  /\ op = "write"
  /\ stl.status = "ok"
  /\ Len(tris) = 2
  /\ tris[1] # tris[2]
  /\ tris[1][2] # tris[1][3]
  /\ ~Degenerate(tris[1])
  /\ Parse(stl.data) = tris

(***************************************************************************)
(* C5: a cylinder along X at any center is the cylinder along Y at the     *)
(* origin with every vertex remapped (x, y, z) -> (y, x, z) and then       *)
(* translated by the center, triangle for triangle.                        *)
(***************************************************************************)
RemapThenTranslate(p, c) == <<p[2] + c[1], p[1] + c[2], p[3] + c[3]>>

C5_AxisRemap ==
  (IsCylinder /\ args.axis = "x") =>
    LET up == cylinder(args.radius, args.height, args.segments, "y", Origin)
    IN /\ Len(tris) = Len(up)
       /\ \A k \in 1..Len(up) : \A v \in 1..3 :
            tris[k][v] = RemapThenTranslate(up[k][v], args.center)

C5_Witness ==
  /\ IsCylinder
  /\ args.axis = "x"
  /\ args.segments >= 3
  /\ args.center[1] # args.center[2]
  /\ tris # cylinder(args.radius, args.height, args.segments, "y", Origin)

(***************************************************************************)
(* The prong instances of a stud, and the rim they stand on as it was      *)
(* tessellated.                                                            *)
(***************************************************************************)
IsProng(part) == part.kind = "prong"
Prongs == SelectSeq(parts, IsProng)
Rim == parts[1].mesh
RimOuter == Rim[1][1][1]
RimInner == Rim[2 * args.segments + 1][1][1]
RimTop == Rim[1][3][2]

ValidStud(a) ==
  /\ a.stone_diameter > 0
  /\ a.prong_thickness > 0
  /\ a.prong_height > 0
  /\ a.basket_wall_thickness > 0
  /\ a.post_diameter > 0
  /\ a.post_length > 0
  /\ a.backing_extra_radius > 0
  /\ a.backing_thickness > 0

\* instance k stands at angle 2*pi*(k-1)/n, at the distance of instance 1
PolarArray(pr) ==
  LET n == Len(pr)
      rho == pr[1].center[1]
  IN /\ rho > 0
     /\ \A k \in 1..n :
          /\ pr[k].center[1] = FMul(rho, Cos(k - 1, n))
          /\ pr[k].center[3] = FMul(rho, Sin(k - 1, n))
          /\ pr[k].center[2] = pr[1].center[2]

PronCountOf(a) == IF a.head_style = "6-prong" THEN 6 ELSE 4

\* a triangle up to the choice of its first vertex
Cyclic(t) == {<<t[1], t[2], t[3]>>, <<t[2], t[3], t[1]>>, <<t[3], t[1], t[2]>>}
Faces(mesh) == {Cyclic(mesh[j]) : j \in 1..Len(mesh)}

\* a quarter turn about the Y axis, the sense in which the angles grow
QuarterTurn(p) == <<-p[3], p[2], p[1]>>
RECURSIVE Turned(_, _)
Turned(p, q) == IF q = 0 THEN p ELSE Turned(QuarterTurn(p), q - 1)
TurnedFaces(mesh, q) ==
  {Cyclic(<<Turned(mesh[j][1], q), Turned(mesh[j][2], q), Turned(mesh[j][3], q)>>) :
     j \in 1..Len(mesh)}

Translated(mesh, d) ==
  [j \in 1..Len(mesh) |->
     <<_add(mesh[j][1], d), _add(mesh[j][2], d), _add(mesh[j][3], d)>>]

ProngBase(part) == part.center[2] - FMul(part.height, Half)

C7_ProngsOnOuterRadius ==
  (IsStud /\ ValidStud(args)) =>
    LET pr == Prongs
    IN /\ RimOuter = RimInner + args.basket_wall_thickness
       /\ \A k \in 1..Len(pr) :
            /\ pr[k].center[1] = FMul(RimOuter, Cos(k - 1, Len(pr)))
            /\ pr[k].center[3] = FMul(RimOuter, Sin(k - 1, Len(pr)))
            /\ ProngBase(pr[k]) = RimTop

(***************************************************************************)
(* C7 amended: the prong for angle theta is centred at                     *)
(* (mid * cos theta, base + prongHeight / 2, mid * sin theta), mid the     *)
(* middle of the rim wall, (inner + outer) / 2, so that it stands on the   *)
(* top of the rim.                                                         *)
(***************************************************************************)
C7_ProngsOnMidWall ==
  (IsStud /\ ValidStud(args)) =>
    LET pr == Prongs
        mid == FMul(RimInner + RimOuter, Half)
    IN /\ RimOuter = RimInner + args.basket_wall_thickness
       /\ \A k \in 1..Len(pr) :
            /\ pr[k].center[1] = FMul(mid, Cos(k - 1, Len(pr)))
            /\ pr[k].center[3] = FMul(mid, Sin(k - 1, Len(pr)))
            /\ pr[k].center[2] = RimTop + FMul(args.prong_height, Half)
            /\ ProngBase(pr[k]) = RimTop

C7_Witness ==
  /\ op = "generate_stl"
  /\ ValidStud(args)
  /\ Len(Prongs) = 4
  /\ RimInner < Prongs[1].center[1]
  /\ Prongs[1].center[1] < RimOuter
  /\ Prongs[2].center[3] = Prongs[1].center[1]

(***************************************************************************)
(* C8: a call with a configuration error ends in an error, never in a      *)
(* triangle list: segments < 3 for cylinder and ring, inner radius >=      *)
(* outer radius for ring, a zero or negative dimension for build_stud.     *)
(***************************************************************************)
ConfigurationError ==
  \/ args.fn = "cylinder" /\ args.segments < 3
  \/ args.fn = "ring" /\ (args.segments < 3 \/ args.inner_r >= args.outer_r)
  \/ args.fn = "build_stud" /\ ~ValidStud(args)

C8_ConfigurationErrorsRejected ==
  (op \in {"cylinder", "ring", "build_stud"} /\ ConfigurationError) =>
    outcome = "raised"

(***************************************************************************)
(* C9: in a cylinder along Y of n >= 3 segments every bottom-cap triangle  *)
(* has its derived normal along -Y and every top-cap triangle along +Y.    *)
(***************************************************************************)
C9_CapNormals ==
  (IsCylinder /\ args.axis = "y" /\ args.segments >= 3) =>
    LET n == args.segments
    IN /\ \A k \in (2 * n + 1)..(3 * n - 2) : Normal(tris[k]) = <<0, -S, 0>>
       /\ \A k \in (3 * n - 1)..(4 * n - 4) : Normal(tris[k]) = <<0, S, 0>>

(***************************************************************************)
(* C10: in a ring with 0 < inner < outer and n >= 3 segments the outer     *)
(* wall triangles have normals pointing away from the Y axis, and the      *)
(* inner wall triangles, wound the other way, normals pointing to it.      *)
(***************************************************************************)
C10_RingWallNormals ==
  (IsRing /\ 0 < args.inner_r /\ args.inner_r < args.outer_r /\ args.segments >= 3) =>
    LET n == args.segments
    IN /\ \A k \in 1..(2 * n) : RadialDot(tris[k]) > 0
       /\ \A k \in (2 * n + 1)..(4 * n) : RadialDot(tris[k]) < 0

====
